---- MODULE Spec2Model ----
(***************************************************************************)
(* A model of src/src/App.jsx: the App component (session state, startup   *)
(* fetch, reveal, reset) and the GameField component (keydown listener,    *)
(* guess submission, grid rendering, tile status).                         *)
(*                                                                         *)
(* JavaScript strings are sequences of one-character strings.  Arrays are  *)
(* functions over 0..n-1, so that indices are the source's indices.        *)
(*                                                                         *)
(* React schedules state updates made inside a keydown or click event at   *)
(* discrete-event priority: the re-render, and the effects of that render  *)
(* (detaching the old keydown listener, attaching the new one), complete   *)
(* before the browser dispatches the next event.  Each event is therefore  *)
(* one action: the handler run on the values its closure captured,         *)
(* followed by the commit that re-creates the listener (Spec).             *)
(*                                                                         *)
(* Where effects are instead flushed in a later task (a legacy root, or    *)
(* events dispatched back to back from a script), events can reach the     *)
(* listener of an earlier render: DeferredSpec lets up to MaxDeferred      *)
(* renders of a session leave their effects pending.                       *)
(***************************************************************************)
EXTENDS Integers, Sequences, FiniteSets, TLC

VARIABLES
    word,           \* App state: the secret word ('' while loading)
    guessedWords,   \* App state: array of submitted guesses
    currentTry,     \* App state: index of the active attempt
    isGameOver,     \* App state: game-over flag
    currentGuess,   \* App state: the guess being typed
    fetchPending,   \* TRUE until the startup fetchWord() has settled
    listener,       \* the keydown handler attached to window, with the
                    \* values its closure captured, or NoListener
    lastEvent,      \* the event handled most recently
    alertShown,     \* the alert() raised while handling lastEvent
    tileArgs,       \* arguments of a direct call of calculateTileStatus (and
                    \* the guess the letter is taken from, if any)
    tileResult,     \* what that call returned ("none" before the call)
    deferredEffects,\* TRUE when effects run in a later task than the event
    deferredCount   \* renders whose effects were left pending so far

vars == <<word, guessedWords, currentTry, isGameOver, currentGuess,
          fetchPending, listener, lastEvent, alertShown, tileArgs, tileResult,
          deferredEffects, deferredCount>>

effectVars == <<deferredEffects, deferredCount>>

tileVars == <<tileArgs, tileResult>>

gameState == <<guessedWords, currentTry, isGameOver, currentGuess>>

-----------------------------------------------------------------------------
(* Program constants *)

MAX_TRIES == 6

WORD_LENGTH == 5

EmptyStr == << >>

AVAILABLE_LETTERS ==
    <<"A","B","C","D","E","F","G","H","I","J","K","L","M",
      "N","O","P","Q","R","S","T","U","V","W","X","Y","Z">>

LowerLetters ==
    <<"a","b","c","d","e","f","g","h","i","j","k","l","m",
      "n","o","p","q","r","s","t","u","v","w","x","y","z">>

INITIAL_GUESSES == [i \in 0..(MAX_TRIES - 1) |-> EmptyStr]

FALLBACK_WORD == <<"H","E","L","L","O">>

-----------------------------------------------------------------------------
(* String primitives of the language, as the code uses them *)

\* String.prototype.toUpperCase on one character
UpperChar(c) ==
    IF \E i \in 1..Len(LowerLetters) : LowerLetters[i] = c
    THEN AVAILABLE_LETTERS[CHOOSE i \in 1..Len(LowerLetters) : LowerLetters[i] = c]
    ELSE c

\* String.prototype.toUpperCase
toUpperCase(s) == [i \in 1..Len(s) |-> UpperChar(s[i])]

\* String.prototype.includes: substring search
includes(s, sub) ==
    \E i \in 0..(Len(s) - Len(sub)) : SubSeq(s, i + 1, i + Len(sub)) = sub

\* String.prototype.slice(0, -1)
sliceDropLast(s) == IF Len(s) = 0 THEN s ELSE SubSeq(s, 1, Len(s) - 1)

\* String.prototype.padEnd(n, pad): an empty pad string pads nothing
padEnd(s, n, pad) ==
    IF Len(s) >= n \/ Len(pad) = 0
    THEN s
    ELSE [i \in 1..n |-> IF i <= Len(s) THEN s[i]
                         ELSE pad[((i - Len(s) - 1) % Len(pad)) + 1]]

\* s[i] with a 0-based index, as a string; '' where s[i] is undefined
charAt(s, i) == IF i + 1 \in 1..Len(s) THEN <<s[i + 1]>> ELSE EmptyStr

\* A copy of array arr with arr[i] = v; writing past the end grows the array
arraySet(arr, i, v) ==
    LET n == Cardinality(DOMAIN arr)
        m == IF i >= n THEN i + 1 ELSE n
    IN [j \in 0..(m - 1) |-> IF j = i THEN v
                             ELSE IF j \in DOMAIN arr THEN arr[j] ELSE EmptyStr]

-----------------------------------------------------------------------------
(* Inputs: the fetch outcomes and the keys the player presses *)

\* How many words of WordList the player types from
NumWords == 2

WordList ==
    << <<"C","R","A","N","E">>, <<"T","R","A","C","E">>,
       <<"H","E","L","L","O">>, <<"E","E","R","I","E">>,
       <<"L","L","A","M","A">> >>

Dictionary == {WordList[i] : i \in 1..NumWords}

\* The solution field of an OK response: a lower-case word, or ''
Solutions == { <<"c","r","a","n","e">>, EmptyStr }

FetchOutcomes ==
    {[kind |-> "ok", solution |-> s] : s \in Solutions}
    \cup {[kind |-> k, solution |-> EmptyStr] :
            k \in {"not_ok", "network_error", "bad_json", "no_solution"}}

KeyEnter == <<"E","n","t","e","r">>

KeyBackspace == <<"B","a","c","k","s","p","a","c","e">>

KeyDelete == <<"D","e","l","e","t","e">>

KeyShift == <<"S","h","i","f","t">>

KeyDigit == <<"1">>

DictionaryLetters == {w[i] : w \in Dictionary, i \in 1..WORD_LENGTH}

\* event.key of a letter key: the letter, in either case
LetterKeys ==
    {<<c>> : c \in DictionaryLetters}
    \cup {<<LowerLetters[i]>> : i \in {j \in 1..26 : AVAILABLE_LETTERS[j] \in DictionaryLetters}}

Keys == LetterKeys \cup {KeyEnter, KeyBackspace, KeyDelete, KeyShift, KeyDigit}

IsPrefix(p, w) == Len(p) <= Len(w) /\ SubSeq(w, 1, Len(p)) = p

\* The player types words of the Dictionary (or any letter once the row is
\* full), and may press every other key at any time.
PlayerPresses(key) ==
    \/ key \notin LetterKeys
    \/ Len(currentGuess) >= WORD_LENGTH
    \/ \E w \in Dictionary : IsPrefix(currentGuess \o toUpperCase(key), w)

NoListener == [attached |-> FALSE, currentGuess |-> EmptyStr, currentTry |-> 0,
               word |-> EmptyStr]

NoAlert == EmptyStr

-----------------------------------------------------------------------------
(* GameField *)

\* Mutant: the letter is compared without upper-casing it
calculateTileStatus_NoUpperCase(letter, position, w) ==
    IF letter = EmptyStr THEN "white"
    ELSE LET upperWord == toUpperCase(w)
         IN IF letter = charAt(upperWord, position) THEN "green"
            ELSE IF includes(upperWord, letter) THEN "yellow"
            ELSE "grey"

\* Mutant: presence elsewhere in the word is not tested
calculateTileStatus_NoPresenceTest(letter, position, w) ==
    IF letter = EmptyStr THEN "white"
    ELSE LET upperLetter == toUpperCase(letter)
             upperWord == toUpperCase(w)
         IN IF upperLetter = charAt(upperWord, position) THEN "green"
            ELSE "grey"

\* Mutant: presence in the word is tested before the exact position
calculateTileStatus_YellowFirst(letter, position, w) ==
    IF letter = EmptyStr THEN "white"
    ELSE LET upperLetter == toUpperCase(letter)
             upperWord == toUpperCase(w)
         IN IF includes(upperWord, upperLetter) THEN "yellow"
            ELSE IF upperLetter = charAt(upperWord, position) THEN "green"
            ELSE "grey"

calculateTileStatus(letter, position, w) ==
    IF letter = EmptyStr THEN "white"
    ELSE LET upperLetter == toUpperCase(letter)
             upperWord == toUpperCase(w)
         IN IF upperLetter = charAt(upperWord, position) THEN "green"
            ELSE IF includes(upperWord, upperLetter) THEN "yellow"
            ELSE "grey"

\* useMemo fullGrid: the guesses with the row of the current try replaced
fullGrid ==
    arraySet(guessedWords, currentTry, padEnd(currentGuess, WORD_LENGTH, EmptyStr))

\* The letter prop of the Tile at (guessIndex, letterIndex)
tileLetter(guessIndex, letterIndex) == charAt(fullGrid[guessIndex], letterIndex)

\* Mutant: the row being typed is coloured like a submitted row
tileStatus_ColoursTypedRow(guessIndex, letterIndex) ==
    IF guessIndex <= currentTry
    THEN calculateTileStatus(tileLetter(guessIndex, letterIndex), letterIndex, word)
    ELSE "white"

\* The status prop of the Tile at (guessIndex, letterIndex)
tileStatus(guessIndex, letterIndex) ==
    IF guessIndex < currentTry \/ (isGameOver /\ guessIndex = currentTry)
    THEN calculateTileStatus(tileLetter(guessIndex, letterIndex), letterIndex, word)
    ELSE "white"

\* Mutant: the effect attaches the listener even when the game is over
attachedListener_IgnoresGameOver(w, over, guess, try) ==
    IF w = EmptyStr
    THEN NoListener
    ELSE [attached |-> TRUE, currentGuess |-> guess, currentTry |-> try, word |-> w]

\* useEffect of GameField: the listener the committed render leaves attached.
\* GameField is mounted only once word is set; the effect attaches nothing
\* while the game is over.
attachedListener(w, over, guess, try) ==
    IF w = EmptyStr \/ over
    THEN NoListener
    ELSE [attached |-> TRUE, currentGuess |-> guess, currentTry |-> try, word |-> w]

\* How many renders of a session may leave their effects pending
MaxDeferred == 1

\* The re-render that follows an event, and its effects: run with it, or
\* left pending for a later task
commit ==
    /\ UNCHANGED deferredEffects
    /\ \/ /\ listener' = attachedListener(word', isGameOver', currentGuess', currentTry')
          /\ UNCHANGED deferredCount
       \/ /\ deferredEffects
          /\ deferredCount < MaxDeferred
          /\ listener # attachedListener(word', isGameOver', currentGuess', currentTry')
          /\ deferredCount' = deferredCount + 1
          /\ UNCHANGED listener

\* The pending effects run: the listener of the latest render is attached
flushEffects ==
    /\ listener # attachedListener(word, isGameOver, currentGuess, currentTry)
    /\ listener' = attachedListener(word, isGameOver, currentGuess, currentTry)
    /\ UNCHANGED <<word, gameState, fetchPending, lastEvent, alertShown, tileArgs,
                   tileResult, effectVars>>

\* Mutant: only a guess that is too long is rejected
invalidLength_OnlyTooLong(guess) == Len(guess) > WORD_LENGTH

\* The validation of handleSubmitGuess: the guess is not a 5-letter word
invalidLength(guess) == Len(guess) # WORD_LENGTH

\* The aborted submission: an alert and an early return
rejectGuess ==
    /\ alertShown' = <<"Must be a 5-letter word!">>
    /\ UNCHANGED gameState

\* Mutant: the winning branch does not return and goes on to the next try
winGame_FallsThrough ==
    /\ isGameOver' = TRUE
    /\ alertShown' = NoAlert
    /\ currentGuess' = EmptyStr
    /\ currentTry' = currentTry + 1

\* Mutant: a correct guess is treated like a miss with tries left
winGame_NotDetected ==
    /\ alertShown' = NoAlert
    /\ currentGuess' = EmptyStr
    /\ currentTry' = currentTry + 1
    /\ UNCHANGED isGameOver

\* The submitted word is the secret word: game over, early return
winGame ==
    /\ isGameOver' = TRUE
    /\ alertShown' = NoAlert
    /\ UNCHANGED <<currentGuess, currentTry>>

\* Mutant: the last try is detected one try too late
isLastTry_OffByOne(try) == try >= MAX_TRIES

\* The try that was just used is the last one
isLastTry(try) == try >= MAX_TRIES - 1

\* Mutant: the alert is raised but the game-over flag is not set
loseGame_FlagNotSet(w) ==
    /\ alertShown' = <<"Game Over! The word was: ">> \o w
    /\ UNCHANGED <<isGameOver, currentGuess, currentTry>>

\* The last try missed: alert with the word, game over, early return
loseGame(w) ==
    /\ alertShown' = <<"Game Over! The word was: ">> \o w
    /\ isGameOver' = TRUE
    /\ UNCHANGED <<currentGuess, currentTry>>

\* Mutant: the typed guess is not cleared
nextTry_GuessKept ==
    /\ currentTry' = currentTry + 1
    /\ alertShown' = NoAlert
    /\ UNCHANGED <<currentGuess, isGameOver>>

\* Mutant: the updater of currentTry subtracts instead of adding
nextTry_Decrements ==
    /\ currentGuess' = EmptyStr
    /\ currentTry' = currentTry - 1
    /\ alertShown' = NoAlert
    /\ UNCHANGED isGameOver

\* A miss with tries left: clear the typed guess, move to the next try
nextTry ==
    /\ currentGuess' = EmptyStr
    /\ currentTry' = currentTry + 1
    /\ alertShown' = NoAlert
    /\ UNCHANGED isGameOver

\* Mutant: the guess is written to the row after the current one
handleSubmitGuess_WritesNextRow(h) ==
    IF invalidLength(h.currentGuess)
    THEN rejectGuess
    ELSE LET submittedWord == toUpperCase(h.currentGuess)
             secretWord == toUpperCase(h.word)
         IN /\ guessedWords' = arraySet(guessedWords, (h.currentTry + 1) % MAX_TRIES,
                                        submittedWord)
            /\ IF submittedWord = secretWord THEN winGame
               ELSE IF isLastTry(h.currentTry) THEN loseGame(h.word)
               ELSE nextTry

\* handleSubmitGuess, on the values h its closure captured
handleSubmitGuess(h) ==
    IF invalidLength(h.currentGuess)
    THEN rejectGuess
    ELSE LET submittedWord == toUpperCase(h.currentGuess)
             secretWord == toUpperCase(h.word)
         IN /\ guessedWords' = arraySet(guessedWords, h.currentTry, submittedWord)
            /\ IF submittedWord = secretWord THEN winGame
               ELSE IF isLastTry(h.currentTry) THEN loseGame(h.word)
               ELSE nextTry

\* Mutant: a letter is accepted whatever the length of the typed guess
acceptsLetter_NoLengthCheck(h, key) == includes(AVAILABLE_LETTERS, key)

\* The guard of handleKeyPress on a letter key
acceptsLetter(h, key) ==
    includes(AVAILABLE_LETTERS, key) /\ Len(h.currentGuess) < WORD_LENGTH

\* handleKeyPress, on the values h its closure captured
handleKeyPress(h, event) ==
    LET key == toUpperCase(event)
    IN IF key = toUpperCase(KeyEnter)
       THEN handleSubmitGuess(h)
       ELSE IF key = toUpperCase(KeyBackspace) \/ key = toUpperCase(KeyDelete)
       THEN /\ currentGuess' = sliceDropLast(currentGuess)
            /\ alertShown' = NoAlert
            /\ UNCHANGED <<guessedWords, currentTry, isGameOver>>
       ELSE IF acceptsLetter(h, key)
       THEN /\ currentGuess' = currentGuess \o key
            /\ alertShown' = NoAlert
            /\ UNCHANGED <<guessedWords, currentTry, isGameOver>>
       ELSE /\ alertShown' = NoAlert
            /\ UNCHANGED gameState

\* A keydown event on window: runs the attached listener, if there is one
KeyDown(event) ==
    /\ PlayerPresses(event)
    /\ lastEvent' = [type |-> "keydown", key |-> event]
    /\ IF listener.attached
       THEN handleKeyPress(listener, event)
       ELSE /\ alertShown' = NoAlert
            /\ UNCHANGED gameState
    /\ UNCHANGED <<word, fetchPending>>
    /\ commit
    /\ UNCHANGED tileVars

-----------------------------------------------------------------------------
(* App *)

\* Mutant: the solution is stored as the service sent it
fetchWord_NoUpperCase(o) ==
    /\ fetchPending
    /\ fetchPending' = FALSE
    /\ lastEvent' = [type |-> "fetch", key |-> EmptyStr]
    /\ IF o.kind = "ok"
       THEN /\ word' = o.solution
            /\ alertShown' = NoAlert
       ELSE /\ word' = FALLBACK_WORD
            /\ alertShown' = <<"Error fetching word, using fallback word!">>
    /\ UNCHANGED gameState
    /\ commit
    /\ UNCHANGED tileVars

\* fetchWord settles with outcome o
fetchWord(o) ==
    /\ fetchPending
    /\ fetchPending' = FALSE
    /\ lastEvent' = [type |-> "fetch", key |-> EmptyStr]
    /\ IF o.kind = "ok"
       THEN /\ word' = toUpperCase(o.solution)
            /\ alertShown' = NoAlert
       ELSE /\ word' = FALLBACK_WORD
            /\ alertShown' = <<"Error fetching word, using fallback word!">>
    /\ UNCHANGED gameState
    /\ commit
    /\ UNCHANGED tileVars

\* Click on "Reveal Word": rendered once word is set, disabled when game over
revealWord ==
    /\ word # EmptyStr
    /\ ~isGameOver
    /\ lastEvent' = [type |-> "reveal", key |-> EmptyStr]
    /\ alertShown' = <<"The word is: ">> \o word
    /\ UNCHANGED <<word, fetchPending, gameState>>
    /\ commit
    /\ UNCHANGED tileVars

\* Mutant: the win is looked up with the typed guess instead of the word
gameStatus_LooksUpGuess ==
    IF word = EmptyStr \/ ~isGameOver THEN "none"
    ELSE IF \E i \in DOMAIN guessedWords : guessedWords[i] = currentGuess
         THEN "You Win!" ELSE "You Lost!"

\* The game-status paragraph App renders under the board
gameStatus ==
    IF word = EmptyStr \/ ~isGameOver THEN "none"
    ELSE IF \E i \in DOMAIN guessedWords : guessedWords[i] = word
         THEN "You Win!" ELSE "You Lost!"

\* Mutant: reset does not clear the game-over flag
resetGame_FlagKept ==
    /\ word # EmptyStr
    /\ lastEvent' = [type |-> "reset", key |-> EmptyStr]
    /\ guessedWords' = INITIAL_GUESSES
    /\ currentTry' = 0
    /\ currentGuess' = EmptyStr
    /\ alertShown' = NoAlert
    /\ UNCHANGED <<word, fetchPending, isGameOver>>
    /\ commit
    /\ UNCHANGED tileVars

\* Mutant: reset does not clear the typed guess
resetGame_GuessKept ==
    /\ word # EmptyStr
    /\ lastEvent' = [type |-> "reset", key |-> EmptyStr]
    /\ guessedWords' = INITIAL_GUESSES
    /\ currentTry' = 0
    /\ isGameOver' = FALSE
    /\ UNCHANGED <<word, fetchPending, currentGuess>>
    /\ alertShown' = NoAlert
    /\ commit
    /\ UNCHANGED tileVars

\* Click on "Reset Game": rendered once word is set
resetGame ==
    /\ word # EmptyStr
    /\ lastEvent' = [type |-> "reset", key |-> EmptyStr]
    /\ guessedWords' = INITIAL_GUESSES
    /\ currentTry' = 0
    /\ isGameOver' = FALSE
    /\ currentGuess' = EmptyStr
    /\ alertShown' = NoAlert
    /\ UNCHANGED <<word, fetchPending>>
    /\ commit
    /\ UNCHANGED tileVars

-----------------------------------------------------------------------------

NoTileArgs == [letter |-> EmptyStr, position |-> 0, word |-> EmptyStr,
               guess |-> EmptyStr]

Init ==
    /\ deferredEffects = FALSE
    /\ deferredCount = 0
    /\ tileArgs = NoTileArgs
    /\ tileResult = "none"
    /\ word = EmptyStr
    /\ guessedWords = INITIAL_GUESSES
    /\ currentTry = 0
    /\ isGameOver = FALSE
    /\ currentGuess = EmptyStr
    /\ fetchPending = TRUE
    /\ listener = NoListener
    /\ lastEvent = [type |-> "load", key |-> EmptyStr]
    /\ alertShown = NoAlert

Next ==
    \/ \E o \in FetchOutcomes : fetchWord(o)
    \/ \E event \in Keys : KeyDown(event)
    \/ revealWord
    \/ resetGame

Spec == Init /\ [][Next]_vars

\* The same program with effects that run in a later task
DeferredInit ==
    /\ deferredEffects = TRUE
    /\ deferredCount = 0
    /\ tileArgs = NoTileArgs
    /\ tileResult = "none"
    /\ word = EmptyStr
    /\ guessedWords = INITIAL_GUESSES
    /\ currentTry = 0
    /\ isGameOver = FALSE
    /\ currentGuess = EmptyStr
    /\ fetchPending = TRUE
    /\ listener = NoListener
    /\ lastEvent = [type |-> "load", key |-> EmptyStr]
    /\ alertShown = NoAlert

DeferredNext ==
    \/ \E o \in FetchOutcomes : fetchWord(o)
    \/ \E event \in Keys : KeyDown(event)
    \/ revealWord
    \/ resetGame
    \/ flushEffects

DeferredSpec == DeferredInit /\ [][DeferredNext]_vars

-----------------------------------------------------------------------------
(* calculateTileStatus called directly, on arguments drawn from small sets *)

\* Letters passed to calculateTileStatus: '' and one-character strings
TileLetters == {EmptyStr, <<"z">>, <<"Z">>, <<"1">>} \cup LetterKeys

\* Secret words passed to calculateTileStatus, in either case, and ''
TileWords == Dictionary \cup Solutions \cup {FALLBACK_WORD, <<"C","r","A","n","E">>}

TileInit ==
    /\ tileArgs \in [letter : TileLetters, position : 0..(WORD_LENGTH - 1),
                     word : TileWords, guess : {EmptyStr}]
    /\ tileResult = "none"
    /\ word = EmptyStr
    /\ guessedWords = INITIAL_GUESSES
    /\ currentTry = 0
    /\ isGameOver = FALSE
    /\ currentGuess = EmptyStr
    /\ fetchPending = TRUE
    /\ listener = NoListener
    /\ lastEvent = [type |-> "load", key |-> EmptyStr]
    /\ alertShown = NoAlert
    /\ deferredEffects = FALSE
    /\ deferredCount = 0

callTileStatus ==
    /\ tileResult = "none"
    /\ tileResult' = calculateTileStatus(tileArgs.letter, tileArgs.position, tileArgs.word)
    /\ UNCHANGED <<word, gameState, fetchPending, listener, lastEvent, alertShown,
                   tileArgs, effectVars>>

TileNext == callTileStatus

TileSpec == TileInit /\ [][TileNext]_vars

\* calculateTileStatus called as the board calls it: on each letter of a
\* 5-letter guess, with the position of the letter in the guess
RowGuesses ==
    {WordList[i] : i \in 1..Len(WordList)}
        \cup {<<"H","O","L","E","S">>, <<"M","E","D","A","L">>, <<"I","R","A","T","E">>}

RowWords == {WordList[i] : i \in 1..Len(WordList)}

RowInit ==
    /\ \E g \in RowGuesses, p \in 0..(WORD_LENGTH - 1), w \in RowWords :
          tileArgs = [letter |-> charAt(g, p), position |-> p, word |-> w, guess |-> g]
    /\ tileResult = "none"
    /\ word = EmptyStr
    /\ guessedWords = INITIAL_GUESSES
    /\ currentTry = 0
    /\ isGameOver = FALSE
    /\ currentGuess = EmptyStr
    /\ fetchPending = TRUE
    /\ listener = NoListener
    /\ lastEvent = [type |-> "load", key |-> EmptyStr]
    /\ alertShown = NoAlert
    /\ deferredEffects = FALSE
    /\ deferredCount = 0

RowSpec == RowInit /\ [][TileNext]_vars

-----------------------------------------------------------------------------
(* Vocabulary of the properties *)

\* The states of the game instance
Loading == word = EmptyStr

Playing == word # EmptyStr /\ ~isGameOver

\* The event handled last was a keydown of Enter
EnterPressed ==
    lastEvent.type = "keydown" /\ toUpperCase(lastEvent.key) = toUpperCase(KeyEnter)

KeyPressed == lastEvent.type = "keydown"

ResetClicked == lastEvent.type = "reset"

\* guessedWords with slot i holding w and every other slot as before
WrittenAt(i, w) ==
    /\ DOMAIN guessedWords' = DOMAIN guessedWords
    /\ \A j \in DOMAIN guessedWords :
          guessedWords'[j] = IF j = i THEN w ELSE guessedWords[j]

-----------------------------------------------------------------------------
(* Guess submission *)

\* C1: pressing Enter in a Playing state while the typed guess has a length
\* other than 5 leaves guessedWords, currentTry, isGameOver and currentGuess
\* unchanged.
C1_InvalidSubmitAborts ==
    [][ (Playing /\ Len(currentGuess) # WORD_LENGTH /\ EnterPressed')
           => UNCHANGED <<guessedWords, currentTry, isGameOver, currentGuess>> ]_vars

\* Enter was pressed on a partly typed guess in the middle of a game
C1_Witness ==
    /\ EnterPressed
    /\ alertShown = <<"Must be a 5-letter word!">>
    /\ Len(currentGuess) \in 1..(WORD_LENGTH - 1)
    /\ currentTry > 0
    /\ Playing

\* C2: submitting a 5-letter guess equal to the secret word, at any try
\* 0..5, writes the guess at currentTry, sets isGameOver, and leaves
\* currentTry and currentGuess as they were.
C2_CorrectGuessWins ==
    [][ (/\ Playing
         /\ Len(currentGuess) = WORD_LENGTH
         /\ toUpperCase(currentGuess) = word
         /\ EnterPressed')
           => /\ WrittenAt(currentTry, toUpperCase(currentGuess))
              /\ isGameOver' = TRUE
              /\ currentTry' = currentTry
              /\ currentGuess' = currentGuess ]_vars

\* The secret word was submitted on the last try
C2_Witness ==
    /\ EnterPressed
    /\ isGameOver
    /\ currentTry = MAX_TRIES - 1
    /\ guessedWords[currentTry] = word
    /\ currentGuess = word

\* C3: submitting a 5-letter guess that is not the secret word while
\* currentTry < 5 writes the guess at the old currentTry, clears
\* currentGuess, adds exactly one to currentTry and leaves isGameOver false.
C3_MissAdvances ==
    [][ (/\ Playing
         /\ Len(currentGuess) = WORD_LENGTH
         /\ toUpperCase(currentGuess) # word
         /\ currentTry < MAX_TRIES - 1
         /\ EnterPressed')
           => /\ WrittenAt(currentTry, toUpperCase(currentGuess))
              /\ currentGuess' = EmptyStr
              /\ currentTry' = currentTry + 1
              /\ isGameOver' = FALSE ]_vars

\* A miss was submitted on the fifth try
C3_Witness ==
    /\ EnterPressed
    /\ Playing
    /\ currentTry = MAX_TRIES - 1
    /\ currentGuess = EmptyStr
    /\ Len(guessedWords[currentTry - 1]) = WORD_LENGTH
    /\ guessedWords[currentTry - 1] # word

\* C4: submitting a 5-letter guess that is not the secret word while
\* currentTry = 5 sets isGameOver and leaves currentTry at 5.
C4_LastMissEndsGame ==
    [][ (/\ Playing
         /\ Len(currentGuess) = WORD_LENGTH
         /\ toUpperCase(currentGuess) # word
         /\ currentTry = MAX_TRIES - 1
         /\ EnterPressed')
           => /\ isGameOver' = TRUE
              /\ currentTry' = MAX_TRIES - 1 ]_vars

\* The sixth guess was submitted and missed
C4_Witness ==
    /\ EnterPressed
    /\ isGameOver
    /\ currentTry = MAX_TRIES - 1
    /\ Len(guessedWords[currentTry]) = WORD_LENGTH
    /\ guessedWords[currentTry] # word
    /\ alertShown = <<"Game Over! The word was: ">> \o word

-----------------------------------------------------------------------------
(* Reset *)

\* C5: Reset, from any state in which the word is loaded, yields an all-empty
\* guessedWords, currentTry 0, isGameOver false and an empty currentGuess,
\* and leaves word unchanged, with no new fetch and no return to Loading.
C5_ResetRestoresInitialGame ==
    [][ ResetClicked'
           => /\ ~Loading
              /\ guessedWords' = INITIAL_GUESSES
              /\ currentTry' = 0
              /\ isGameOver' = FALSE
              /\ currentGuess' = EmptyStr
              /\ word' = word
              /\ fetchPending' = fetchPending
              /\ Playing' ]_vars

\* Reset was clicked and the game is playable again on the same word
C5_Witness ==
    /\ ResetClicked
    /\ word = FALLBACK_WORD
    /\ guessedWords = INITIAL_GUESSES
    /\ currentTry = 0
    /\ currentGuess = EmptyStr
    /\ listener.attached

-----------------------------------------------------------------------------
(* Tile status *)

\* The letters of w, upper-cased
UpperLettersOf(w) == {UpperChar(w[i]) : i \in 1..Len(w)}

\* C6: calculateTileStatus(L, P, W) is white when L is empty; otherwise green
\* iff uppercase(L) is the letter of uppercase(W) at position P; otherwise
\* yellow iff uppercase(L) occurs in uppercase(W); otherwise grey.
C6_TileStatusRule ==
    tileResult # "none" =>
        LET L == tileArgs.letter
            P == tileArgs.position
            W == tileArgs.word
        IN IF L = EmptyStr THEN tileResult = "white"
           ELSE IF P < Len(W) /\ UpperChar(L[1]) = UpperChar(W[P + 1])
                THEN tileResult = "green"
           ELSE IF UpperChar(L[1]) \in UpperLettersOf(W)
                THEN tileResult = "yellow"
           ELSE tileResult = "grey"

\* calculateTileStatus returned yellow for a lower-case letter
C6_Witness ==
    /\ tileResult = "yellow"
    /\ tileArgs.letter = <<"e">>
    /\ tileArgs.position = 0
    /\ tileArgs.word = <<"c","r","a","n","e">>

\* The statuses the board shows in row guessIndex
rowStatuses(guessIndex) ==
    [letterIndex \in 0..(WORD_LENGTH - 1) |-> tileStatus(guessIndex, letterIndex)]

\* A row of five statuses, indexed like the tiles of a row
Row(statuses) == [letterIndex \in 0..(WORD_LENGTH - 1) |-> statuses[letterIndex + 1]]

\* TRACE is typed on try 0 against CRANE and Enter is pressed
SubmitsTraceAgainstCrane ==
    /\ word = <<"C","R","A","N","E">>
    /\ Playing
    /\ currentTry = 0
    /\ toUpperCase(currentGuess) = <<"T","R","A","C","E">>
    /\ EnterPressed'

\* C7 as stated: with secret word CRANE, submitting TRACE on try 0 makes
\* currentTry 1 and row 0 shows T grey, R green, A yellow, C yellow, E green.
C7_TraceAgainstCrane ==
    [][ SubmitsTraceAgainstCrane
           => /\ currentTry' = 1
              /\ rowStatuses(0)' = Row(<<"grey", "green", "yellow", "yellow", "green">>) ]_vars

\* C7 amended: with secret word CRANE, submitting TRACE on try 0 makes
\* currentTry 1 and row 0 shows T grey, R green, A green, C yellow, E green
\* (A is the third letter of both words).
C7_TraceAgainstCraneAmended ==
    [][ SubmitsTraceAgainstCrane
           => /\ currentTry' = 1
              /\ rowStatuses(0)' = Row(<<"grey", "green", "green", "yellow", "green">>) ]_vars

\* TRACE was submitted on try 0 against CRANE
C7_Witness ==
    /\ EnterPressed
    /\ word = <<"C","R","A","N","E">>
    /\ currentTry = 1
    /\ guessedWords[0] = <<"T","R","A","C","E">>
    /\ tileLetter(0, 0) = <<"T">>

-----------------------------------------------------------------------------
(* States of the game *)

\* C8: only Playing accepts keyboard input.  In Loading, Won and Lost no key
\* event changes guessedWords, currentTry, isGameOver or currentGuess; once
\* isGameOver is true the state stays as it is until Reset, the only
\* transition out of Won/Lost, which leads to Playing.
C8_OnlyPlayingAcceptsKeys ==
    /\ [](listener.attached <=> Playing)
    /\ [][ /\ (~Playing /\ KeyPressed') => UNCHANGED gameState
           /\ isGameOver =>
                \/ UNCHANGED <<gameState, word>>
                \/ ResetClicked' /\ Playing' /\ word' = word ]_vars

\* Backspace was pressed after the game ended and the row is still complete
C8_Witness ==
    /\ isGameOver
    /\ lastEvent = [type |-> "keydown", key |-> KeyBackspace]
    /\ Len(currentGuess) = WORD_LENGTH
    /\ ~listener.attached

-----------------------------------------------------------------------------
(* The index of the current try *)

\* C9: in every reachable state currentTry is an integer in [0, 6).
C9_CurrentTryInRange == currentTry \in 0..(MAX_TRIES - 1)

\* All six tries were used and the last one missed
C9_Witness ==
    /\ currentTry = MAX_TRIES - 1
    /\ isGameOver
    /\ \A i \in 0..(MAX_TRIES - 1) :
          Len(guessedWords[i]) = WORD_LENGTH /\ guessedWords[i] # word

\* C10 as stated: no step of any kind (key event, submission, reset, reveal,
\* fetch completion) decreases currentTry.
C10_NeverDecreases == [][ currentTry' >= currentTry ]_vars

\* C10 amended: no step other than Reset decreases currentTry; Reset sets it
\* to 0.
C10_DecreasesOnlyByReset ==
    [][ IF ResetClicked' THEN currentTry' = 0 ELSE currentTry' >= currentTry ]_vars

\* A miss has moved the game to its fourth try
C10_Witness ==
    /\ EnterPressed
    /\ Playing
    /\ currentTry = 3
    /\ currentGuess = EmptyStr

-----------------------------------------------------------------------------
(* The typed guess *)

UpperCaseLetters == {AVAILABLE_LETTERS[i] : i \in 1..26}

\* The key of the event handled last, by kind
IsLetterKey(key) ==
    Len(key) = 1 /\ \E i \in 1..26 : key[1] \in {AVAILABLE_LETTERS[i], LowerLetters[i]}

IsEraseKey(key) == key \in {KeyBackspace, KeyDelete}

IsEnterKey(key) == key = KeyEnter

\* C11: currentGuess is always a string of 0..5 upper-case letters A-Z.  A
\* letter key appends its letter only when the length is below 5,
\* Backspace/Delete removes the last character (nothing when empty), every
\* other key except Enter leaves it unchanged, and no key other than Enter
\* changes guessedWords, currentTry or isGameOver.
C11_TypedGuessRules ==
    /\ [](/\ Len(currentGuess) \in 0..WORD_LENGTH
          /\ \A i \in 1..Len(currentGuess) : currentGuess[i] \in UpperCaseLetters)
    /\ [][ (KeyPressed' /\ ~IsEnterKey(lastEvent'.key))
             => /\ UNCHANGED <<guessedWords, currentTry, isGameOver>>
                /\ LET key == lastEvent'.key
                   IN IF ~Playing THEN currentGuess' = currentGuess
                      ELSE IF IsLetterKey(key)
                      THEN currentGuess' =
                             IF Len(currentGuess) < WORD_LENGTH
                             THEN Append(currentGuess, UpperChar(key[1]))
                             ELSE currentGuess
                      ELSE IF IsEraseKey(key)
                      THEN currentGuess' =
                             IF currentGuess = EmptyStr THEN EmptyStr
                             ELSE SubSeq(currentGuess, 1, Len(currentGuess) - 1)
                      ELSE currentGuess' = currentGuess ]_vars

\* A letter key was pressed on a full row and was ignored
C11_Witness ==
    /\ Playing
    /\ KeyPressed
    /\ IsLetterKey(lastEvent.key)
    /\ Len(currentGuess) = WORD_LENGTH
    /\ currentGuess[WORD_LENGTH] # UpperChar(lastEvent.key[1])

-----------------------------------------------------------------------------
(* The secret word *)

\* C12: once the startup fetch has completed, with any outcome (an OK
\* response with any solution value, a non-OK status, a network error,
\* malformed JSON, a missing solution field), the game has left Loading with
\* a non-empty word, and the completion itself leads to Playing.  Nothing but
\* the completion of the fetch sets word, so a game still Loading after it
\* stays Loading for ever.
C12_PlayableAfterFetch ==
    ~fetchPending => (word # EmptyStr /\ (lastEvent.type = "fetch" => Playing))

FetchCompleted == lastEvent.type = "fetch"

\* The fetch failed: the only trace the code leaves is its alert
FetchFailureAlerted == alertShown = <<"Error fetching word, using fallback word!">>

\* C13: word is set once per session, by the completion of the fetch: to the
\* upper-cased solution when the fetch succeeds, to HELLO when it fails; no
\* key event, submission, reveal or reset changes it afterwards.
C13_WordSetOnceByFetch ==
    [][ /\ fetchPending' => fetchPending
        /\ word' # word => (fetchPending /\ FetchCompleted')
        /\ ~fetchPending => word' = word
        /\ (fetchPending /\ FetchCompleted') =>
              /\ ~fetchPending'
              /\ IF FetchFailureAlerted'
                 THEN word' = <<"H","E","L","L","O">>
                 ELSE \E s \in Solutions :
                         /\ Len(word') = Len(s)
                         /\ \A i \in 1..Len(s) : word'[i] = UpperChar(s[i])
                         /\ \A i \in 1..Len(s) : word'[i] \in UpperCaseLetters ]_vars

\* The fetched word is still there after a reset
C13_Witness ==
    /\ ResetClicked
    /\ word = <<"C","R","A","N","E">>
    /\ ~fetchPending

-----------------------------------------------------------------------------
(* Win and loss *)

\* Six guesses were submitted and none of them is the word
SixMisses ==
    \A i \in 0..(MAX_TRIES - 1) :
        Len(guessedWords[i]) = WORD_LENGTH /\ guessedWords[i] # word

\* C14: when isGameOver is true the board declares a win exactly when the
\* guess stored at currentTry is the secret word, and a loss exactly when
\* six incorrect guesses have used up all tries; while isGameOver is false
\* no win/loss message is shown.
C14_StatusMessage ==
    /\ DOMAIN guessedWords = 0..(MAX_TRIES - 1)
    /\ currentTry \in DOMAIN guessedWords
    /\ IF isGameOver
       THEN /\ gameStatus = "You Win!" <=> guessedWords[currentTry] = word
            /\ gameStatus = "You Lost!" <=> SixMisses
            /\ gameStatus \in {"You Win!", "You Lost!"}
       ELSE gameStatus = "none"

\* The sixth guess missed and the board says so
C14_Witness ==
    /\ isGameOver
    /\ gameStatus = "You Lost!"
    /\ SixMisses
    /\ currentTry = MAX_TRIES - 1

-----------------------------------------------------------------------------
(* Row rendering *)

\* The status the tile rule gives letter L (a one-character string) at
\* position P of a guess against W
ComputedStatus(L, P, W) ==
    IF P < Len(W) /\ UpperChar(L[1]) = UpperChar(W[P + 1]) THEN "green"
    ELSE IF UpperChar(L[1]) \in UpperLettersOf(W) THEN "yellow"
    ELSE "grey"

\* Row r of the board shows the five letters of guess g with their computed
\* statuses
ShowsComputed(r, g) ==
    /\ Len(g) = WORD_LENGTH
    /\ \A c \in 0..(WORD_LENGTH - 1) :
          /\ tileLetter(r, c) = <<g[c + 1]>>
          /\ tileStatus(r, c) = ComputedStatus(<<g[c + 1]>>, c, word)

\* Row r of the board shows the letters of g, then blanks, all white
ShowsWhite(r, g) ==
    \A c \in 0..(WORD_LENGTH - 1) :
        /\ tileLetter(r, c) = IF c < Len(g) THEN <<g[c + 1]>> ELSE EmptyStr
        /\ tileStatus(r, c) = "white"

\* C15: every row below currentTry shows its computed statuses; the row at
\* currentTry shows computed statuses iff isGameOver and otherwise only white
\* tiles whatever is typed; every row above currentTry is empty and white.
C15_RowRendering ==
    ~Loading =>
        /\ DOMAIN fullGrid = 0..(MAX_TRIES - 1)
        /\ \A r \in 0..(MAX_TRIES - 1) :
              IF r < currentTry THEN ShowsComputed(r, guessedWords[r])
              ELSE IF r = currentTry
                   THEN IF isGameOver THEN ShowsComputed(r, guessedWords[r])
                        ELSE ShowsWhite(r, currentGuess)
              ELSE ShowsWhite(r, EmptyStr)

\* A, in its place in CRANE, is typed in the third row and stays white
C15_Witness ==
    /\ Playing
    /\ word = <<"C","R","A","N","E">>
    /\ currentTry = 2
    /\ currentGuess = <<"T","R","A">>
    /\ tileLetter(2, 2) = <<"A">>
    /\ tileStatus(2, 2) = "white"
    /\ tileStatus(1, 2) = "green"

-----------------------------------------------------------------------------
(* Submissions and pending effects *)

\* C16: no two submissions race, also when several key events are delivered
\* before the listener has been re-attached: an Enter press that acts (that
\* changes guessedWords, currentTry or isGameOver) acts on the state left by
\* all earlier events: the typed guess is then a 5-letter word, it is written
\* at the current try, and the try advances by one at most.
C16_EnterActsOnCurrentState ==
    [][ (EnterPressed' /\ <<guessedWords, currentTry, isGameOver>>' #
                              <<guessedWords, currentTry, isGameOver>>)
           => /\ Len(currentGuess) = WORD_LENGTH
              /\ WrittenAt(currentTry, toUpperCase(currentGuess))
              /\ currentTry' \in {currentTry, currentTry + 1} ]_vars

-----------------------------------------------------------------------------
(* The list of guesses *)

IsGuessWord(w) ==
    Len(w) = WORD_LENGTH /\ \A i \in 1..WORD_LENGTH : w[i] \in UpperCaseLetters

\* C17: guessedWords always has exactly 6 slots, each empty or a 5-letter
\* upper-case word; a key event or submission changes it only by writing the
\* completed guess at currentTry, and never changes a slot below currentTry.
C17_GuessListFrozenBelow ==
    /\ [](/\ DOMAIN guessedWords = 0..(MAX_TRIES - 1)
          /\ \A i \in 0..(MAX_TRIES - 1) :
                guessedWords[i] = EmptyStr \/ IsGuessWord(guessedWords[i]))
    /\ [][ KeyPressed' =>
             /\ \A i \in 0..(MAX_TRIES - 1) :
                   i < currentTry => guessedWords'[i] = guessedWords[i]
             /\ guessedWords' # guessedWords =>
                   /\ EnterPressed'
                   /\ Len(currentGuess) = WORD_LENGTH
                   /\ WrittenAt(currentTry, toUpperCase(currentGuess)) ]_vars

\* Four guesses are submitted, the last one just now
C17_Witness ==
    /\ EnterPressed
    /\ currentTry = 4
    /\ \A i \in 0..3 : IsGuessWord(guessedWords[i])
    /\ \A i \in 4..5 : guessedWords[i] = EmptyStr

\* A guess is stored in slot i
HoldsGuess(i) == guessedWords[i] # EmptyStr

\* C18: isGameOver is true iff the guess stored at currentTry is the secret
\* word, or currentTry is 5 and slot 5 holds a submitted guess; while
\* isGameOver is false no slot holds the secret word and the slot at
\* currentTry is still empty.
C18_GameOverIff ==
    /\ isGameOver <=>
          \/ HoldsGuess(currentTry) /\ guessedWords[currentTry] = word
          \/ currentTry = MAX_TRIES - 1 /\ HoldsGuess(MAX_TRIES - 1)
    /\ ~isGameOver =>
          /\ \A i \in 0..(MAX_TRIES - 1) : ~(HoldsGuess(i) /\ guessedWords[i] = word)
          /\ ~HoldsGuess(currentTry)

\* The game was won on the third try
C18_Witness ==
    /\ isGameOver
    /\ currentTry = 2
    /\ guessedWords[2] = word
    /\ HoldsGuess(1) /\ guessedWords[1] # word

-----------------------------------------------------------------------------
(* Length of a game *)

\* The tries used since the game began: the submissions accepted so far
TriesUsed == currentTry + (IF isGameOver THEN 1 ELSE 0)

\* A step in which a 5-letter guess is submitted to a running game
AcceptedSubmission ==
    Playing /\ Len(currentGuess) = WORD_LENGTH /\ EnterPressed'

\* C19: between two resets (or from load to the first reset) at most 6
\* submissions of 5-letter guesses are accepted, and a player who keeps
\* submitting 5-letter guesses without resetting reaches isGameOver: every
\* accepted submission uses exactly one try, nothing but a reset gives tries
\* back, no more than 6 tries are ever used, the game is over when 6 are
\* used, and a game that is over accepts no submission.
C19_GameEndsWithinSixSubmissions ==
    /\ [](/\ TriesUsed \in 0..MAX_TRIES
          /\ TriesUsed = MAX_TRIES => isGameOver
          /\ TriesUsed = Cardinality({i \in DOMAIN guessedWords : HoldsGuess(i)}))
    /\ [][ /\ AcceptedSubmission => TriesUsed' = TriesUsed + 1
           /\ TriesUsed' > TriesUsed => AcceptedSubmission
           /\ TriesUsed' < TriesUsed => (ResetClicked' /\ TriesUsed' = 0)
           /\ (isGameOver /\ EnterPressed') => UNCHANGED gameState ]_vars

\* The sixth submission was accepted and ended the game
C19_Witness ==
    /\ EnterPressed
    /\ TriesUsed = MAX_TRIES
    /\ isGameOver
    /\ \A i \in 0..(MAX_TRIES - 1) : HoldsGuess(i)

-----------------------------------------------------------------------------
(* The standard two-pass status of a guess *)

\* Position i (from 0) of guess g is an exact match in w
ExactMatch(g, w, i) == g[i + 1] = w[i + 1]

\* The standard algorithm: exact matches are green; then, from left to
\* right, a letter is yellow while occurrences of it remain in the word that
\* are neither matched exactly nor taken by an earlier yellow; else grey
TwoPassStatus(g, w, p) ==
    LET positions == 0..(WORD_LENGTH - 1)
        L == g[p + 1]
        remaining == Cardinality({i \in positions : w[i + 1] = L /\ ~ExactMatch(g, w, i)})
        earlier == Cardinality({i \in positions :
                                   i < p /\ g[i + 1] = L /\ ~ExactMatch(g, w, i)})
    IN IF ExactMatch(g, w, p) THEN "green"
       ELSE IF earlier < remaining THEN "yellow"
       ELSE "grey"

NoRepeatedLetter(g) == \A i, j \in 1..Len(g) : g[i] = g[j] => i = j

\* C20: for every secret word and every 5-letter guess in which no letter
\* occurs twice, the status calculateTileStatus gives each tile is the status
\* of the standard two-pass algorithm.
C20_AgreesWithTwoPass ==
    (tileResult # "none" /\ NoRepeatedLetter(tileArgs.guess))
        => tileResult = TwoPassStatus(tileArgs.guess, tileArgs.word, tileArgs.position)

\* R of TRACE was given its status against EERIE, a word with a repeated
\* letter
C20_Witness ==
    /\ tileArgs.guess = <<"T","R","A","C","E">>
    /\ tileArgs.word = <<"E","E","R","I","E">>
    /\ tileArgs.position = 1
    /\ tileResult = "yellow"

====
